---- MODULE Spec2Model ----
(***************************************************************************)
(* A model of taskcluster/httpbackoff: the package-level Retry function of *)
(* httpbackoff.go, driven by the exponential backoff scheduler of          *)
(* github.com/cenkalti/backoff (RetryNotify, ExponentialBackOff).          *)
(*                                                                         *)
(* Time is an integer clock.  Under Spec one unit is an abstract tick;     *)
(* under SpecTest one unit is 100 microseconds, so that the settings of    *)
(* test_setup_test.go (1ms, 5ms, 20ms) are 10, 50 and 200 units.           *)
(* Floating point factors are kept as fractions num/den, and the           *)
(* conversion time.Duration(float64) is truncation.                        *)
(*                                                                         *)
(* One step of DoHttpCall is one round of RetryNotify's loop up to the     *)
(* point where it blocks: the operation is invoked (taking one of          *)
(* httpCall.times), its outcome classified, and either Retry returns or    *)
(* the scheduler hands out the wait that Sleep then lets pass.             *)
(***************************************************************************)
EXTENDS Integers, Sequences, FiniteSets, TLC

VARIABLES
    BackOffSettings,  \* the package variable: configuration and running state
    now,              \* the clock read by backoff.SystemClock
    httpCall,         \* the operation handed to Retry: a queue of outcomes, then
                      \* rest for ever; an invocation takes one of times
    calls,            \* how many times the operation has been invoked, ever
    base,             \* the value of calls when the current Retry was entered
    pending,          \* how many times the caller has yet to call Retry
    pc,               \* where the current Retry is
    response,         \* Retry's local response
    err,              \* Retry's local err; at pc = "done" the error returned
    attempts,         \* Retry's local attempts
    next,             \* RetryNotify's local next
    notified,         \* how many times the notify callback has been called
    notification,     \* the (err, wait) pair of the latest call of notify
    previous,         \* what the caller got from the Retry before this one
    other,            \* a second goroutine that calls Retry: where it is, and
                      \* when its wait ends
    bLocal,           \* ExponentialBackOff.Retry's local b
    tempError,        \* ExponentialBackOff.Retry's local tempError
    permError,        \* ExponentialBackOff.Retry's local permError
    cancelled         \* whether the caller has signalled cancellation

vars == <<BackOffSettings, now, httpCall, calls, base, pending, pc,
          response, err, attempts, next, notified, notification,
          previous, other, bLocal, tempError, permError, cancelled>>

----------------------------------------------------------------------------
(* Bounds of the model. *)

MaxQueue == 1         \* longest queue of outcomes under Spec
MaxCallTime == 3      \* longest duration of one operation, in ticks, under Spec
MaxTestCallTime == 60 \* longest duration of one operation under SpecTest (6ms)
MaxAttempts == 12     \* no attempt is started after this many
MaxInvocations == 1   \* Retry is called at most this many times under Spec

----------------------------------------------------------------------------
(* Values. *)

Nil == [kind |-> "nil"]

Response(code, i) == [kind |-> "response", StatusCode |-> code, id |-> i]

NetworkError(i) == [kind |-> "error", id |-> i]

RECURSIVE Itoa(_)
Itoa(n) == IF n < 10 THEN <<n>> ELSE Append(Itoa(n \div 10), n % 10)

BadHttpResponseCode(code, marker) ==
    [kind |-> "BadHttpResponseCode",
     HttpResponseCode |-> code,
     Message |-> <<marker, " HTTP response code ", Itoa(code)>>]

(* What one invocation of the operation returns: shape.code = 0 stands for *)
(* no response, shape.fail for a non-nil error.                            *)
Shape(code, fail) == [code |-> code, fail |-> fail]

ShapeAt(op, i) == IF i <= Len(op.queue) THEN op.queue[i] ELSE op.rest

Outcome(op, i) ==
    LET s == ShapeAt(op, i)
    IN  [resp |-> IF s.code = 0 THEN Nil ELSE Response(s.code, i),
         err  |-> IF s.fail THEN NetworkError(i) ELSE Nil]

----------------------------------------------------------------------------
(* The backoff scheduler. *)

Stop == -1

Reset(b, t) == [b EXCEPT !.currentInterval = b.InitialInterval, !.startTime = t]

GetElapsedTime(b, t) == t - b.startTime

(* Mutant: Stop as soon as the elapsed time reaches MaxElapsedTime. *)
NextBackOffStops_AtBudget(b, t) ==
    b.MaxElapsedTime # 0 /\ GetElapsedTime(b, t) >= b.MaxElapsedTime

(* Mutant: a MaxElapsedTime of zero is a budget of zero. *)
NextBackOffStops_ZeroIsBudget(b, t) == GetElapsedTime(b, t) > b.MaxElapsedTime

NextBackOffStops(b, t) ==
    b.MaxElapsedTime # 0 /\ GetElapsedTime(b, t) > b.MaxElapsedTime

(* getRandomValueFromInterval for every random in [0,1): the truncations   *)
(* of minInterval + random * (maxInterval - minInterval + 1).              *)
RandomValues(rf, c) ==
    ((c * (rf.den - rf.num)) \div rf.den) ..
        ((c * (rf.den + rf.num) + rf.den - 1) \div rf.den)

incrementCurrentInterval(b) ==
    LET c == b.currentInterval
        m == b.Multiplier
    IN  [b EXCEPT !.currentInterval =
            IF c * m.num >= b.MaxInterval * m.den
            THEN b.MaxInterval
            ELSE (c * m.num) \div m.den]

----------------------------------------------------------------------------
(* Retry of httpbackoff.go. *)

(* Mutant: only the status 500 itself is retried. *)
IsIntermittent_Only500(respCode) == respCode = 500

IsIntermittent(respCode) == respCode \div 100 = 5

(* Mutant: every status below 500 passes for a good one. *)
IsOK_Below500(respCode) == respCode < 500

IsOK(respCode) == respCode \div 100 = 2

(* Mutant: the 5xx error is given the marker of the permanent one. *)
doHttpCallErr_Permanent(oc) ==
    IF oc.err # Nil THEN oc.err
    ELSE IF IsIntermittent(oc.resp.StatusCode)
         THEN BadHttpResponseCode(oc.resp.StatusCode, "(Permanent)")
         ELSE Nil

(* Mutant: a network error is wrapped into a status-code error. *)
doHttpCallErr_Wrapped(oc) ==
    IF oc.err # Nil THEN BadHttpResponseCode(0, "(Intermittent)")
    ELSE IF IsIntermittent(oc.resp.StatusCode)
         THEN BadHttpResponseCode(oc.resp.StatusCode, "(Intermittent)")
         ELSE Nil

(* Mutant: every status but 2xx is handed to RetryNotify as an error. *)
doHttpCallErr_RetriesAll(oc) ==
    IF oc.err # Nil THEN oc.err
    ELSE IF ~IsOK(oc.resp.StatusCode)
         THEN BadHttpResponseCode(oc.resp.StatusCode, "(Intermittent)")
         ELSE Nil

(* The closure doHttpCall: the error it hands to RetryNotify. *)
doHttpCallErr(oc) ==
    IF oc.err # Nil THEN oc.err
    ELSE IF IsIntermittent(oc.resp.StatusCode)
         THEN BadHttpResponseCode(oc.resp.StatusCode, "(Intermittent)")
         ELSE Nil

(* Mutant: an attempt without a response leaves the earlier response. *)
CapturedResponse_KeepsEarlier(old, oc) == IF oc.resp = Nil THEN old ELSE oc.resp

CapturedResponse(old, oc) == oc.resp

(* Mutant: the attempt is counted after the error check. *)
CapturedAttempts_AfterErrCheck(old, oc) == IF oc.err # Nil THEN old ELSE old + 1

CapturedAttempts(old, oc) == old + 1

(* Mutant: the status of the final response is not looked at. *)
RetryReturnErr_NoStatusCheck(e, resp) == e

(* Mutant: giving up is reported as an error of its own. *)
RetryReturnErr_Timeout(e, resp) ==
    IF e # Nil THEN [kind |-> "error", id |-> 0]
    ELSE IF ~IsOK(resp.StatusCode)
         THEN BadHttpResponseCode(resp.StatusCode, "(Permanent)")
         ELSE Nil

(* Mutant: only a 4xx status is turned into the permanent error. *)
RetryReturnErr_Only4xx(e, resp) ==
    IF e # Nil THEN e
    ELSE IF resp.StatusCode \div 100 = 4
         THEN BadHttpResponseCode(resp.StatusCode, "(Permanent)")
         ELSE Nil

(* Retry once RetryNotify has returned e. *)
RetryReturnErr(e, resp) ==
    IF e # Nil THEN e
    ELSE IF ~IsOK(resp.StatusCode)
         THEN BadHttpResponseCode(resp.StatusCode, "(Permanent)")
         ELSE Nil

(* A nil response with a nil error: response.StatusCode is read of nil. *)
Dereferences(oc) == oc.err = Nil /\ oc.resp = Nil

(* Mutant: Retry without the b.Reset() of RetryNotify. *)
Retry_NoReset ==
    /\ pc \in {"idle", "done"}
    /\ pending > 0
    /\ pending' = pending - 1
    /\ base' = calls
    /\ response' = Nil
    /\ err' = Nil
    /\ attempts' = 0
    /\ next' = 0
    /\ notified' = 0
    /\ notification' = Nil
    /\ pc' = "call"
    /\ previous' = IF pc = "done"
                   THEN [response |-> response, attempts |-> attempts, err |-> err]
                   ELSE previous
    /\ UNCHANGED <<BackOffSettings, now, httpCall, calls, other, cancelled,
                   bLocal, tempError, permError>>

Retry ==
    /\ pc \in {"idle", "done"}
    /\ pending > 0
    /\ BackOffSettings' = Reset(BackOffSettings, now)
    /\ pending' = pending - 1
    /\ base' = calls
    /\ response' = Nil
    /\ err' = Nil
    /\ attempts' = 0
    /\ next' = 0
    /\ notified' = 0
    /\ notification' = Nil
    /\ pc' = "call"
    /\ previous' = IF pc = "done"
                   THEN [response |-> response, attempts |-> attempts, err |-> err]
                   ELSE previous
    /\ UNCHANGED <<now, httpCall, calls, other, cancelled,
                   bLocal, tempError, permError>>

(* Mutant: notify is called before the answer of NextBackOff is tested. *)
DoHttpCall_NotifiesStop ==
    /\ pc = "call"
    /\ \E d \in httpCall.times :
        LET t == now + d
            oc == Outcome(httpCall, calls + 1)
        IN  /\ now' = t
            /\ calls' = calls + 1
            /\ response' = CapturedResponse(response, oc)
            /\ attempts' = CapturedAttempts(attempts, oc)
            /\ IF Dereferences(oc)
               THEN /\ pc' = "panic"
                    /\ err' = Nil
                    /\ UNCHANGED <<BackOffSettings, next, notified, notification>>
               ELSE IF doHttpCallErr(oc) = Nil
               THEN /\ pc' = "done"
                    /\ err' = RetryReturnErr(Nil, CapturedResponse(response, oc))
                    /\ UNCHANGED <<BackOffSettings, next, notified, notification>>
               ELSE IF NextBackOffStops(BackOffSettings, t)
               THEN /\ pc' = "done"
                    /\ next' = Stop
                    /\ err' = RetryReturnErr(doHttpCallErr(oc),
                                             CapturedResponse(response, oc))
                    /\ notification' =
                          [kind |-> "notification",
                           err |-> doHttpCallErr(oc), wait |-> Stop]
                    /\ notified' = notified + 1
                    /\ UNCHANGED BackOffSettings
               ELSE /\ \E w \in RandomValues(BackOffSettings.RandomizationFactor,
                                             BackOffSettings.currentInterval) :
                          /\ next' = w
                          /\ notification' =
                                [kind |-> "notification",
                                 err |-> doHttpCallErr(oc), wait |-> w]
                    /\ notified' = notified + 1
                    /\ BackOffSettings' = incrementCurrentInterval(BackOffSettings)
                    /\ err' = oc.err
                    /\ pc' = "sleep"
    /\ UNCHANGED <<httpCall, base, pending, previous, other, cancelled,
                   bLocal, tempError, permError>>

(* One round of RetryNotify around doHttpCall, and the return of Retry. *)
DoHttpCall ==
    /\ pc = "call"
    /\ \E d \in httpCall.times :
        LET t == now + d
            oc == Outcome(httpCall, calls + 1)
        IN  /\ now' = t
            /\ calls' = calls + 1
            /\ response' = CapturedResponse(response, oc)
            /\ attempts' = CapturedAttempts(attempts, oc)
            /\ IF Dereferences(oc)
               THEN /\ pc' = "panic"
                    /\ err' = Nil
                    /\ UNCHANGED <<BackOffSettings, next, notified, notification>>
               ELSE IF doHttpCallErr(oc) = Nil
               THEN /\ pc' = "done"
                    /\ err' = RetryReturnErr(Nil, CapturedResponse(response, oc))
                    /\ UNCHANGED <<BackOffSettings, next, notified, notification>>
               ELSE IF NextBackOffStops(BackOffSettings, t)
               THEN /\ pc' = "done"
                    /\ next' = Stop
                    /\ err' = RetryReturnErr(doHttpCallErr(oc),
                                             CapturedResponse(response, oc))
                    /\ UNCHANGED <<BackOffSettings, notified, notification>>
               ELSE /\ \E w \in RandomValues(BackOffSettings.RandomizationFactor,
                                             BackOffSettings.currentInterval) :
                          /\ next' = w
                          /\ notification' =
                                [kind |-> "notification",
                                 err |-> doHttpCallErr(oc), wait |-> w]
                    /\ notified' = notified + 1
                    /\ BackOffSettings' = incrementCurrentInterval(BackOffSettings)
                    /\ err' = oc.err
                    /\ pc' = "sleep"
    /\ UNCHANGED <<httpCall, base, pending, previous, other, cancelled,
                   bLocal, tempError, permError>>

(* Mutant: the wait returns at once, no time passes. *)
Sleep_NoWait ==
    /\ pc = "sleep"
    /\ attempts < MaxAttempts
    /\ pc' = "call"
    /\ UNCHANGED <<BackOffSettings, now, httpCall, calls, base, pending,
                   response, err, attempts, next, notified, notification,
                   previous, other, cancelled, bLocal, tempError, permError>>

(* time.Sleep(next) of RetryNotify between two calls of doHttpCall. *)
Sleep ==
    /\ pc = "sleep"
    /\ attempts < MaxAttempts
    /\ now' = now + next
    /\ pc' = "call"
    /\ UNCHANGED <<BackOffSettings, httpCall, calls, base, pending,
                   response, err, attempts, next, notified, notification,
                   previous, other, cancelled, bLocal, tempError, permError>>

Next == Retry \/ DoHttpCall \/ Sleep

----------------------------------------------------------------------------
(* Initial states. *)

Fraction(n, d) == [num |-> n, den |-> d]

Settings(ii, rf, m, mi, me) ==
    [InitialInterval |-> ii, RandomizationFactor |-> rf, Multiplier |-> m,
     MaxInterval |-> mi, MaxElapsedTime |-> me,
     currentInterval |-> ii, startTime |-> 0]

SmallSettings ==
    { Settings(2, Fraction(1, 2), Fraction(3, 2), 3, 2),
      Settings(1, Fraction(0, 1), Fraction(2, 1), 2, 0) }

Statuses == {100, 200, 299, 302, 400, 429, 499, 500, 599}

Shapes ==
    { Shape(c, FALSE) : c \in Statuses }
        \cup { Shape(0, TRUE), Shape(500, TRUE), Shape(200, TRUE), Shape(0, FALSE) }

SeqsUpTo(S, n) == UNION { [1 .. k -> S] : k \in 0 .. n }

(* No second goroutine. *)
NoOther == [pc |-> "none", wake |-> 0]

InitLocals ==
    /\ now = 0
    /\ calls = 0
    /\ base = 0
    /\ pc = "idle"
    /\ response = Nil
    /\ err = Nil
    /\ attempts = 0
    /\ next = 0
    /\ notified = 0
    /\ notification = Nil
    /\ previous = Nil
    /\ bLocal = Nil
    /\ tempError = Nil
    /\ permError = Nil
    /\ cancelled = FALSE

Init ==
    /\ BackOffSettings \in SmallSettings
    /\ httpCall \in [queue : SeqsUpTo(Shapes, MaxQueue), rest : Shapes,
                     times : {0 .. MaxCallTime}]
    /\ pending = MaxInvocations
    /\ other = NoOther
    /\ InitLocals

Spec == Init /\ [][Next]_vars

(* One call of Retry under settings with a budget, when every operation    *)
(* returns and every timer fires.                                          *)
InitLive ==
    /\ BackOffSettings \in { s \in SmallSettings : s.MaxElapsedTime # 0 }
    /\ httpCall \in [queue : SeqsUpTo(Shapes, MaxQueue), rest : Shapes,
                     times : {0 .. MaxCallTime}]
    /\ pending = 1
    /\ other = NoOther
    /\ InitLocals

SpecLive == InitLive /\ [][Next]_vars /\ WF_vars(DoHttpCall) /\ WF_vars(Sleep)

----------------------------------------------------------------------------
(* A caller that calls Retry twice, one call after the other, with the     *)
(* same settings and the same operation.  The settings without jitter make *)
(* a run repeatable; in one of them InitialInterval is above MaxInterval,  *)
(* as in TestRetry5xxAndFail.                                              *)

AgainSettings ==
    { Settings(1, Fraction(0, 1), Fraction(2, 1), 4, 6),
      Settings(3, Fraction(0, 1), Fraction(3, 2), 2, 6),
      Settings(2, Fraction(1, 2), Fraction(3, 2), 3, 2) }

AgainCallTimes == { {0}, {1}, 0 .. MaxCallTime }

InitAgain ==
    /\ BackOffSettings \in AgainSettings
    /\ httpCall \in [queue : SeqsUpTo(Shapes, MaxQueue), rest : Shapes,
                     times : AgainCallTimes]
    /\ pending = 2
    /\ other = NoOther
    /\ InitLocals

SpecAgain == InitAgain /\ [][Next]_vars

----------------------------------------------------------------------------
(* Two goroutines calling Retry: both hand the package variable            *)
(* BackOffSettings to RetryNotify.  The second one's operation answers 500 *)
(* at once every time; it runs at the clock the first one's steps set.     *)

(* RetryNotify of the second goroutine: b.Reset(). *)
OtherRetry ==
    /\ other.pc = "idle"
    /\ BackOffSettings' = Reset(BackOffSettings, now)
    /\ other' = [pc |-> "call", wake |-> now]
    /\ UNCHANGED <<now, httpCall, calls, base, pending, pc, response, err,
                   attempts, next, notified, notification, previous,
                   cancelled,
                   bLocal, tempError, permError>>

(* One round of RetryNotify of the second goroutine, its wait over:        *)
(* doHttpCall returns the error of the 500, then b.NextBackOff().          *)
OtherAttempt ==
    /\ other.pc = "call"
    /\ now >= other.wake
    /\ IF NextBackOffStops(BackOffSettings, now)
       THEN /\ other' = [pc |-> "done", wake |-> other.wake]
            /\ UNCHANGED BackOffSettings
       ELSE \E w \in RandomValues(BackOffSettings.RandomizationFactor,
                                  BackOffSettings.currentInterval) :
                /\ other' = [pc |-> "call", wake |-> now + w]
                /\ BackOffSettings' = incrementCurrentInterval(BackOffSettings)
    /\ UNCHANGED <<now, httpCall, calls, base, pending, pc, response, err,
                   attempts, next, notified, notification, previous,
                   cancelled,
                   bLocal, tempError, permError>>

NextConc == Retry \/ DoHttpCall \/ Sleep \/ OtherRetry \/ OtherAttempt

InitConc ==
    /\ BackOffSettings \in SmallSettings
    /\ httpCall \in [queue : {<<>>},
                     rest : {Shape(500, FALSE), Shape(0, TRUE), Shape(200, FALSE)},
                     times : {{0, 1}}]
    /\ pending = 1
    /\ other = [pc |-> "idle", wake |-> 0]
    /\ InitLocals

SpecConc == InitConc /\ [][NextConc]_vars

----------------------------------------------------------------------------
(* A caller that signals cancellation while Retry waits between two        *)
(* attempts.  Retry takes the operation and nothing else, and RetryNotify  *)
(* waits in time.Sleep: no statement of Retry reads the signal.            *)

Cancel ==
    /\ pc = "sleep"
    /\ ~cancelled
    /\ cancelled' = TRUE
    /\ UNCHANGED <<BackOffSettings, now, httpCall, calls, base, pending, pc,
                   response, err, attempts, next, notified, notification,
                   previous, other, bLocal, tempError, permError>>

NextCancel == Retry \/ DoHttpCall \/ Sleep \/ Cancel

InitCancel ==
    /\ BackOffSettings \in SmallSettings
    /\ httpCall \in [queue : SeqsUpTo(Shapes, MaxQueue), rest : Shapes,
                     times : {{0, 1}}]
    /\ pending = 1
    /\ other = NoOther
    /\ InitLocals

SpecCancel == InitCancel /\ [][NextCancel]_vars

----------------------------------------------------------------------------
(* The method ExponentialBackOff.Retry: the operation returns a            *)
(* response, a temporary error and a permanent error; the scheduler runs   *)
(* on b, a copy of the receiver, which is BackOffSettings here.            *)

(* What one invocation of the operation returns: code = 0 stands for no    *)
(* response, temp and perm for a non-nil tempError and permError.          *)
MethodShape(code, temp, perm) == [code |-> code, temp |-> temp, perm |-> perm]

CallerError(which, i) == [kind |-> "error", which |-> which, id |-> i]

MethodOutcome(op, i) ==
    LET s == ShapeAt(op, i)
    IN  [resp |-> IF s.code = 0 THEN Nil ELSE Response(s.code, i),
         tempError |-> IF s.temp THEN CallerError("tempError", i) ELSE Nil,
         permError |-> IF s.perm THEN CallerError("permError", i) ELSE Nil]

(* httputil.DumpResponse and string(raw): the text of that response. *)
DumpResponse(resp) == <<"dump", resp.id>>

MethodBadHttpResponseCode(resp, marker) ==
    [kind |-> "BadHttpResponseCode",
     HttpResponseCode |-> resp.StatusCode,
     Message |-> <<marker, " HTTP response code ", Itoa(resp.StatusCode),
                   "\n", DumpResponse(resp)>>]

(* Whether doHttpCall gets as far as looking at the response. *)
LooksAtResponse(oc) == oc.tempError = Nil /\ oc.permError = Nil

(* httputil.DumpResponse(response, true) with a nil response. *)
MethodDereferences(oc) == LooksAtResponse(oc) /\ oc.resp = Nil

(* The closure doHttpCall: the error it hands to RetryNotify. *)
MethodDoHttpCallErr(oc) ==
    IF oc.tempError # Nil THEN oc.tempError
    ELSE IF oc.permError # Nil THEN Nil
    ELSE IF IsIntermittent(oc.resp.StatusCode)
         THEN MethodBadHttpResponseCode(oc.resp, "(Intermittent)")
         ELSE Nil

(* The closure doHttpCall: what it leaves in permError. *)
MethodPermError(oc) ==
    IF LooksAtResponse(oc) /\ ~IsIntermittent(oc.resp.StatusCode)
                           /\ ~IsOK(oc.resp.StatusCode)
    THEN MethodBadHttpResponseCode(oc.resp, "(Permanent)")
    ELSE oc.permError

(* The switch at the end of the method; what RetryNotify returned is not   *)
(* looked at.                                                              *)
MethodReturnErr(perm, temp) ==
    IF perm # Nil THEN perm ELSE IF temp # Nil THEN temp ELSE Nil

(* Mutant: RetryNotify is given the receiver, which it resets. *)
MethodRetry_OnReceiver ==
    /\ pc \in {"idle", "done"}
    /\ pending > 0
    /\ pending' = pending - 1
    /\ base' = calls
    /\ tempError' = Nil
    /\ permError' = Nil
    /\ response' = Nil
    /\ err' = Nil
    /\ attempts' = 0
    /\ next' = 0
    /\ notified' = 0
    /\ notification' = Nil
    /\ bLocal' = Reset(BackOffSettings, now)
    /\ BackOffSettings' = Reset(BackOffSettings, now)
    /\ pc' = "call"
    /\ previous' = IF pc = "done"
                   THEN [response |-> response, attempts |-> attempts, err |-> err]
                   ELSE previous
    /\ UNCHANGED <<now, httpCall, calls, other, cancelled>>

(* Entry of the method: the locals, b, and the b.Reset() of RetryNotify. *)
MethodRetry ==
    /\ pc \in {"idle", "done"}
    /\ pending > 0
    /\ pending' = pending - 1
    /\ base' = calls
    /\ tempError' = Nil
    /\ permError' = Nil
    /\ response' = Nil
    /\ err' = Nil
    /\ attempts' = 0
    /\ next' = 0
    /\ notified' = 0
    /\ notification' = Nil
    /\ bLocal' = Reset(BackOffSettings, now)
    /\ pc' = "call"
    /\ previous' = IF pc = "done"
                   THEN [response |-> response, attempts |-> attempts, err |-> err]
                   ELSE previous
    /\ UNCHANGED <<BackOffSettings, now, httpCall, calls, other, cancelled>>

MethodDoHttpCall ==
    /\ pc = "call"
    /\ \E d \in httpCall.times :
        LET t == now + d
            oc == MethodOutcome(httpCall, calls + 1)
        IN  /\ now' = t
            /\ calls' = calls + 1
            /\ response' = oc.resp
            /\ attempts' = attempts + 1
            /\ tempError' = oc.tempError
            /\ IF MethodDereferences(oc)
               THEN /\ pc' = "panic"
                    /\ permError' = oc.permError
                    /\ UNCHANGED <<err, bLocal, next, notified, notification>>
               ELSE /\ permError' = MethodPermError(oc)
                    /\ IF MethodDoHttpCallErr(oc) = Nil
                       THEN /\ pc' = "done"
                            /\ err' = MethodReturnErr(MethodPermError(oc), oc.tempError)
                            /\ UNCHANGED <<bLocal, next, notified, notification>>
                       ELSE IF NextBackOffStops(bLocal, t)
                       THEN /\ pc' = "done"
                            /\ next' = Stop
                            /\ err' = MethodReturnErr(MethodPermError(oc), oc.tempError)
                            /\ UNCHANGED <<bLocal, notified, notification>>
                       ELSE \E w \in RandomValues(bLocal.RandomizationFactor,
                                                  bLocal.currentInterval) :
                                /\ next' = w
                                /\ notification' =
                                      [kind |-> "notification",
                                       err |-> MethodDoHttpCallErr(oc), wait |-> w]
                                /\ notified' = notified + 1
                                /\ bLocal' = incrementCurrentInterval(bLocal)
                                /\ pc' = "sleep"
                                /\ UNCHANGED err
    /\ UNCHANGED <<BackOffSettings, httpCall, base, pending, previous, other,
                   cancelled>>

NextMethod == MethodRetry \/ MethodDoHttpCall \/ Sleep

MethodShapes ==
    { MethodShape(c, t, p) : c \in {0, 200, 404, 500}, t \in BOOLEAN, p \in BOOLEAN }

InitMethod ==
    /\ BackOffSettings \in SmallSettings
    /\ httpCall \in [queue : SeqsUpTo(MethodShapes, MaxQueue), rest : MethodShapes,
                     times : {0 .. MaxCallTime}]
    /\ pending = 1
    /\ other = NoOther
    /\ InitLocals

SpecMethod == InitMethod /\ [][NextMethod]_vars

(* Two calls of the method on the same receiver, one after the other, with *)
(* an operation that returns the same every time.                          *)
InitMethodAgain ==
    /\ BackOffSettings \in SmallSettings
    /\ httpCall \in [queue : {<<>>}, rest : MethodShapes,
                     times : {0 .. MaxCallTime}]
    /\ pending = 2
    /\ other = NoOther
    /\ InitLocals

SpecMethodAgain == InitMethodAgain /\ [][NextMethod]_vars

----------------------------------------------------------------------------
(* The set-up of the test suite: the settings of TestMain, the stub server *)
(* with the queues the tests fill (an empty queue answers 200), and the    *)
(* port nothing listens on.  One unit of time is 100 microseconds.         *)

TestSettings ==
    { Settings(ii, Fraction(1, 5), Fraction(6, 5), 50, 200) : ii \in {10, 100} }

TestQueues ==
    { <<500, 501, 502, 200, 502>>, <<500, 500, 500, 500, 500>>,
      <<409, 200>>, <<429, 200>> }

(* The queue a test finds when earlier requests have taken its head. *)
QueuedResponses ==
    { SubSeq(q, i, Len(q)) : q \in TestQueues, i \in 1 .. 6 }

StubServer(q) ==
    [queue |-> [i \in 1 .. Len(q) |-> Shape(q[i], FALSE)],
     rest |-> Shape(200, FALSE)]

BadPort == [queue |-> <<>>, rest |-> Shape(0, TRUE)]

Taking(op, ts) == [queue |-> op.queue, rest |-> op.rest, times |-> ts]

(* An operation that returns at once, one that takes up to 5ms, and one    *)
(* that can take longer.                                                   *)
TestCallTimes == { {0}, {0, 25, 50}, {0, 50, MaxTestCallTime} }

InitTest ==
    /\ BackOffSettings \in TestSettings
    /\ \E op \in { StubServer(q) : q \in QueuedResponses } \cup {BadPort} :
       \E ts \in TestCallTimes :
          httpCall = Taking(op, ts)
    /\ pending = 1
    /\ other = NoOther
    /\ InitLocals

SpecTest == InitTest /\ [][Next]_vars

----------------------------------------------------------------------------
(* Vocabulary of the properties: what the operation was scripted to        *)
(* return, stated on the shapes and not through Retry's own tests.         *)

Returned == pc = "done"

Made == calls - base

Nth(i) == ShapeAt(httpCall, base + i)

NthOutcome(i) == Outcome(httpCall, base + i)

Last == Outcome(httpCall, calls)

Status(s, codes) == ~s.fail /\ s.code \in codes

ServerError(s) == Status(s, 500 .. 599)

Success(s) == Status(s, 200 .. 299)

NetworkFailure(s) == s.fail

BudgetLeft == next # Stop

Intermittent(code) ==
    [kind |-> "BadHttpResponseCode", HttpResponseCode |-> code,
     Message |-> <<"(Intermittent)", " HTTP response code ", Itoa(code)>>]

IsPermanent(e) ==
    /\ e.kind = "BadHttpResponseCode"
    /\ e.Message[1] = "(Permanent)"

----------------------------------------------------------------------------
(* C1: a 5xx response on the first invocation and a 200 response on the    *)
(* second, with the scheduler not answering Stop in between: Retry returns *)
(* the 200 response, attempt count 2 and a nil error.                      *)
C1_ServerErrorThenOK ==
    (Returned /\ ServerError(Nth(1)) /\ Nth(2) = Shape(200, FALSE) /\ BudgetLeft)
        => /\ response = NthOutcome(2).resp
           /\ response.StatusCode = 200
           /\ attempts = 2
           /\ err = Nil

C1_Witness ==
    /\ Returned /\ BudgetLeft
    /\ Nth(1) = Shape(599, FALSE) /\ Nth(2) = Shape(200, FALSE)
    /\ attempts = 2 /\ err = Nil

(* C2: a 429 response and then a 200 response: Retry invokes the operation *)
(* a second time and returns the 200 response, attempt count 2, nil error. *)
C2_TooManyRequestsRetried ==
    (Returned /\ Nth(1) = Shape(429, FALSE) /\ Nth(2) = Shape(200, FALSE)
              /\ BudgetLeft)
        => /\ response = NthOutcome(2).resp
           /\ attempts = 2
           /\ Made = 2
           /\ err = Nil

(* C3: a 4xx response other than 429 on the first invocation: the          *)
(* operation is not invoked again, the error is a permanent one and the    *)
(* response returned is that 4xx response, whatever was queued behind it.  *)
C3_ClientErrorNotRetried ==
    (pc # "idle" /\ Made >= 1 /\ Status(Nth(1), (400 .. 499) \ {429}))
        => /\ Returned
           /\ Made = 1
           /\ attempts = 1
           /\ err # Nil
           /\ IsPermanent(err)
           /\ err.HttpResponseCode = Nth(1).code
           /\ response = NthOutcome(1).resp

C3_Witness ==
    /\ Returned /\ Nth(1) = Shape(499, FALSE) /\ Nth(2) = Shape(200, FALSE)
    /\ attempts = 1 /\ response.StatusCode = 499

(* C4: the error returned is nil exactly when the last invocation of the   *)
(* operation returned a 2xx response and no error.                         *)
C4_NilErrorIffSuccess ==
    Returned => (err = Nil <=> Success(ShapeAt(httpCall, calls)))

C4_Witness ==
    /\ Returned /\ attempts = 2 /\ err = Nil
    /\ Nth(1) = Shape(0, TRUE) /\ Nth(2) = Shape(299, FALSE)

(* C5: the attempt count returned is the number of times the operation     *)
(* was invoked during this Retry, on every exit.                           *)
C5_AttemptsCountInvocations ==
    Returned => attempts = Made

C5_Witness ==
    /\ Returned /\ next = Stop /\ attempts = 3 /\ Made = 3
    /\ NetworkFailure(Nth(1)) /\ ServerError(Nth(2))

(* C6: the response returned is the one the last invocation produced,      *)
(* also when that invocation failed, with a response or without one.       *)
C6_ResponseOfLastAttempt ==
    Returned => (Made >= 1 /\ response = Last.resp)

C6_Witness ==
    /\ Returned /\ attempts = 2 /\ response = Nil
    /\ ServerError(Nth(1)) /\ Nth(2) = Shape(0, TRUE)

(* C7, as stated: every invocation returns a 500 response and              *)
(* MaxElapsedTime is non-zero: Retry returns the intermittent error of     *)
(* code 500 with the last 500 response, and attempt count > 1.             *)
AlwaysReturned(s) == \A i \in 1 .. Made : Nth(i) = s

ErrorOfAttempt(oc) ==
    IF oc.err # Nil THEN oc.err ELSE Intermittent(oc.resp.StatusCode)

C8_LastErrorOnStop ==
    (Returned /\ next = Stop) => err = ErrorOfAttempt(Last)

C8_Witness ==
    /\ Returned /\ next = Stop /\ attempts = 2
    /\ Nth(1) = Shape(0, TRUE) /\ Nth(2) = Shape(599, FALSE)
    /\ err = Intermittent(599)

(* C9: k retryable outcomes (network failure, 5xx, 429) and then a 200     *)
(* response, with the scheduler never answering Stop: Retry returns the    *)
(* 200 response, attempt count k+1, a nil error, and what is queued behind *)
(* the 200 is not consumed.                                                *)
RetryableOutcome(s) == NetworkFailure(s) \/ ServerError(s) \/ Status(s, {429})

C9_RetriedUntilOK ==
    \A k \in 0 .. MaxAttempts :
        (/\ Returned /\ BudgetLeft
         /\ \A i \in 1 .. k : RetryableOutcome(Nth(i))
         /\ Nth(k + 1) = Shape(200, FALSE))
            => /\ response = NthOutcome(k + 1).resp
               /\ response.StatusCode = 200
               /\ attempts = k + 1
               /\ Made = k + 1
               /\ err = Nil

(* C10, as stated: every invocation fails with a network error: Retry      *)
(* returns that error once the scheduler answers Stop, and with the        *)
(* settings of the tests the attempt count is at least 4.                  *)
AlwaysFails == httpCall.queue = <<>> /\ httpCall.rest = Shape(0, TRUE)

SettingsOfTests ==
    /\ BackOffSettings.InitialInterval = 10
    /\ BackOffSettings.Multiplier = Fraction(6, 5)
    /\ BackOffSettings.MaxInterval = 50
    /\ BackOffSettings.MaxElapsedTime = 200
    /\ BackOffSettings.RandomizationFactor = Fraction(1, 5)

OtherStatus(s) ==
    ~s.fail /\ s.code # 0
            /\ s.code \notin (200 .. 299) \cup (400 .. 499) \cup (500 .. 599)

C11_OtherStatusPermanent ==
    (pc # "idle" /\ Made >= 1 /\ OtherStatus(Nth(1)))
        => /\ Returned
           /\ Made = 1
           /\ attempts = 1
           /\ err # Nil
           /\ IsPermanent(err)
           /\ err.HttpResponseCode = Nth(1).code
           /\ err.Message[3] = Itoa(Nth(1).code)
           /\ response = NthOutcome(1).resp

C11_Witness ==
    /\ Returned /\ Nth(1) = Shape(302, FALSE) /\ Nth(2) = Shape(200, FALSE)
    /\ attempts = 1 /\ IsPermanent(err) /\ err.HttpResponseCode = 302

(* C12: with a non-zero MaxElapsedTime, positive waits and an operation    *)
(* that returns from every invocation, a Retry that has started eventually *)
(* returns, whatever retryable or other outcomes the operation produces;   *)
(* the operation that returns neither a response nor an error is left out. *)
NeverNothing == \A i \in 1 .. MaxQueue + 1 : ShapeAt(httpCall, i) # Shape(0, FALSE)

C12_Started ==
    /\ pc \in {"call", "sleep"}
    /\ BackOffSettings.MaxElapsedTime # 0
    /\ BackOffSettings.InitialInterval > 0
    /\ NeverNothing

C12_RetryReturns == C12_Started ~> Returned

C12_Witness ==
    /\ Returned /\ next = Stop /\ attempts >= 3
    /\ BackOffSettings.MaxElapsedTime # 0
    /\ \A i \in 1 .. Made : RetryableOutcome(Nth(i))
    /\ now - BackOffSettings.startTime > BackOffSettings.MaxElapsedTime

(* C13: while one invocation of Retry is in progress, a step of another    *)
(* invocation running concurrently neither resets nor advances the         *)
(* scheduler state the first one reads.                                    *)
C13_OwnSchedulerState ==
    [][(pc \in {"call", "sleep"} /\ other' # other)
          => BackOffSettings' = BackOffSettings]_vars

(* C14: every invocation of Retry starts from a reset scheduler, the       *)
(* elapsed time at zero and currentInterval at InitialInterval, whatever   *)
(* the invocation before it did; and called a second time with the same    *)
(* settings and an operation whose outcome and duration never change       *)
(* (without jitter when the outcome is retried), Retry returns the attempt *)
(* count, the status and the error it returned the first time.             *)
Deterministic ==
    /\ httpCall.queue = <<>>
    /\ Cardinality(httpCall.times) = 1
    /\ \/ BackOffSettings.RandomizationFactor.num = 0
       \/ ~(NetworkFailure(httpCall.rest) \/ ServerError(httpCall.rest))

SameOutcome(r1, e1, r2, e2) ==
    /\ r1.kind = r2.kind
    /\ r1.kind = "response" => r1.StatusCode = r2.StatusCode
    /\ e1.kind = e2.kind
    /\ e1.kind = "BadHttpResponseCode" => e1 = e2

C15_AttemptStarts ==
    /\ pc = "call"
    /\ calls' = calls + 1
    /\ attempts' = attempts + 1
    /\ now' >= now

C15_WaitStarts ==
    /\ pc = "call"
    /\ calls' = calls + 1
    /\ RetryableOutcome(ShapeAt(httpCall, calls'))
    /\ next' # Stop
    /\ next' >= 0
    /\ BackOffSettings.MaxElapsedTime # 0
          => GetElapsedTime(BackOffSettings, now') <= BackOffSettings.MaxElapsedTime

C15_NextAttemptReady ==
    \/ pc \in {"idle", "done"} /\ attempts' = 0 /\ base' = calls /\ calls' = calls
    \/ /\ pc = "sleep"
       /\ Made >= 1
       /\ RetryableOutcome(Nth(Made))
       /\ next # Stop
       /\ now' >= now + next
       /\ calls' = calls

C15_Sequential ==
    [][/\ calls' # calls => C15_AttemptStarts
       /\ (pc' = "sleep" /\ pc # "sleep") => C15_WaitStarts
       /\ (pc' = "call" /\ pc # "call") => C15_NextAttemptReady]_vars

C15_Witness ==
    /\ pc = "call" /\ attempts >= 2 /\ Made = attempts
    /\ next > 0 /\ notified = attempts
    /\ RetryableOutcome(Nth(Made))

(* C16: a status-code error returned by Retry carries the status of the    *)
(* returned response; its message starts with (Intermittent) exactly when  *)
(* that status is 5xx or 429 and with (Permanent) exactly when it is any   *)
(* other status outside 2xx; and the error returned after a network        *)
(* failure of the last attempt is no status-code error.                    *)
Taxonomy(e, retryable) ==
    /\ response # Nil
    /\ e.HttpResponseCode = response.StatusCode
    /\ response.StatusCode \notin 200 .. 299
    /\ e.Message[1] \in {"(Intermittent)", "(Permanent)"}
    /\ e.Message[1] = "(Intermittent)" <=> response.StatusCode \in retryable
    /\ e.Message[1] = "(Permanent)" <=> response.StatusCode \notin retryable

C16_ErrorTaxonomy ==
    /\ (Returned /\ err.kind = "BadHttpResponseCode")
          => Taxonomy(err, (500 .. 599) \cup {429})
    /\ (Returned /\ Made >= 1 /\ Last.err # Nil) => err = Last.err

(* C17: the operation is invoked before the scheduler is asked anything:   *)
(* a Retry that waits, has been told Stop or has returned has invoked it   *)
(* and counted the invocation, so the attempt count returned is at least   *)
(* 1, also when the first attempt outlasts MaxElapsedTime and when the     *)
(* invocation before left the shared settings with an exhausted budget.    *)
C17_AtLeastOneAttempt ==
    (pc \in {"sleep", "done"} \/ next = Stop \/ notified > 0)
        => Made >= 1 /\ attempts >= 1

PreviousExhausted ==
    /\ previous # Nil
    /\ previous.err # Nil
    /\ ~IsPermanent(previous.err)

C17_Witness ==
    /\ Returned /\ PreviousExhausted
    /\ attempts = 1 /\ next = Stop /\ Last.err # Nil
    /\ GetElapsedTime(BackOffSettings, now) > BackOffSettings.MaxElapsedTime

(* C18: with MaxElapsedTime = 0 the scheduler never answers Stop, however  *)
(* much time has elapsed: Retry waits again after every retryable outcome  *)
(* and returns only on an outcome that is not retried.                     *)
C18_NoCutoff ==
    BackOffSettings.MaxElapsedTime = 0
        => /\ next # Stop
           /\ ~NextBackOffStops(BackOffSettings, now)
           /\ Returned => /\ err = Nil \/ IsPermanent(err)
                          /\ ~(NetworkFailure(Nth(Made)) \/ ServerError(Nth(Made)))

C18_Witness ==
    /\ BackOffSettings.MaxElapsedTime = 0
    /\ pc = "sleep" /\ attempts = MaxAttempts /\ next > 0
    /\ GetElapsedTime(BackOffSettings, now) > MaxAttempts
    /\ \A i \in 1 .. Made : RetryableOutcome(Nth(i))

(* C19: without jitter (RandomizationFactor = 0), within one invocation of *)
(* Retry every wait the scheduler answers is at most MaxInterval and at    *)
(* least the wait before it, and currentInterval never decreases: for      *)
(* every setting with InitialInterval > 0 and Multiplier > 1, the ones     *)
(* with InitialInterval > MaxInterval included.                            *)
NoJitter ==
    /\ BackOffSettings.RandomizationFactor.num = 0
    /\ BackOffSettings.InitialInterval > 0
    /\ BackOffSettings.Multiplier.num > BackOffSettings.Multiplier.den

C19_WaitAnswered ==
    /\ next' <= BackOffSettings.MaxInterval
    /\ next' >= next
    /\ BackOffSettings'.currentInterval >= BackOffSettings.currentInterval

Plain(s) == ~s.temp /\ ~s.perm

C20_ErrorUnlessOK ==
    /\ (Returned /\ response # Nil /\ response.StatusCode \notin 200 .. 299)
          => err # Nil /\ response = MethodOutcome(httpCall, calls).resp
    /\ (Returned /\ next = Stop
                 /\ \A i \in 1 .. Made : Plain(Nth(i)) /\ Nth(i).code \in 500 .. 599)
          => err = MethodBadHttpResponseCode(response, "(Intermittent)")

(* C21: in the method Retry, an invocation of httpCall that returns a      *)
(* non-nil permError is the last one and Retry returns that permError; a   *)
(* wait for another attempt is entered exactly after a non-nil tempError   *)
(* or a 5xx response, the scheduler not answering Stop; for every          *)
(* combination of the two errors, both non-nil included.                   *)
MethodRetried(s) == s.temp \/ (Plain(s) /\ s.code \in 500 .. 599)

C21_PermErrorEnds ==
    /\ \A i \in 1 .. Made :
          Nth(i).perm
              => /\ i = Made
                 /\ pc # "sleep"
                 /\ Returned => err = MethodOutcome(httpCall, base + i).permError
    /\ pc = "sleep" => MethodRetried(Nth(Made))
    /\ (Returned /\ BudgetLeft) => ~(Nth(Made).temp /\ ~Nth(Made).perm)

(* C22: once cancellation has been signalled during a wait between two     *)
(* attempts, Retry makes no further attempt: it leaves the wait only to    *)
(* return, with an error, and without waiting on.                          *)
C22_CancelStopsRetries ==
    [][cancelled => /\ calls' = calls
                    /\ pc = "sleep" => (pc' = "done" /\ err' # Nil /\ now' = now)]_vars

(* C23: asked after an attempt that is to be retried, the scheduler        *)
(* answers Stop exactly when MaxElapsedTime is not zero and the time since *)
(* startTime is strictly greater than MaxElapsedTime, and a wait in every  *)
(* other case; startTime is the time at which this invocation of Retry     *)
(* began, not the time of an earlier invocation or of the settings'        *)
(* creation, and it does not move during the invocation.                   *)
C23_Asked ==
    /\ pc = "call"
    /\ calls' = calls + 1
    /\ LET s == ShapeAt(httpCall, calls')
       IN  NetworkFailure(s) \/ ServerError(s)

C23_OverBudget ==
    /\ BackOffSettings.MaxElapsedTime # 0
    /\ now' - BackOffSettings.startTime > BackOffSettings.MaxElapsedTime

C23_Answer ==
    /\ C23_OverBudget <=> next' = Stop
    /\ C23_OverBudget <=> pc' = "done"
    /\ ~C23_OverBudget <=> (pc' = "sleep" /\ next' >= 0)

Min(x, y) == IF x <= y THEN x ELSE y

C24_WaitOf(c, rf, m, w, c2) ==
    /\ c <= BackOffSettings.MaxInterval
    /\ w * rf.den >= c * (rf.den - rf.num)
    /\ w * rf.den <= c * (rf.den + rf.num)
    /\ c2 = Min((c * m.num) \div m.den, BackOffSettings.MaxInterval)
    /\ rf.num = 0 => w = c

C25_NotifiedPerWait ==
    /\ pc \in {"call", "sleep"} => notified = attempts
    /\ pc = "sleep" => /\ notification.err = ErrorOfAttempt(Last)
                       /\ notification.wait = next
                       /\ next # Stop
    /\ Returned => notified = attempts - 1
    /\ notified = 0 <=> notification = Nil

C25_Witness ==
    /\ Returned /\ attempts >= 3 /\ notified = attempts - 1
    /\ next = Stop /\ notification.wait > 0
    /\ notification.err = ErrorOfAttempt(NthOutcome(Made - 1))

(* C26: the method Retry runs the scheduler on a copy of its receiver: no  *)
(* step of an invocation changes a field of the receiver, whatever the     *)
(* number of attempts, and an invocation that follows another on the same  *)
(* receiver starts from that receiver's settings, reset.                   *)
C26_Entered == pc \in {"idle", "done"} /\ pc' = "call"

C26_FreshCopy(copy, receiver) ==
    /\ copy.currentInterval = receiver.InitialInterval
    /\ copy.startTime = now
    /\ \A f \in {"InitialInterval", "RandomizationFactor", "Multiplier",
                 "MaxInterval", "MaxElapsedTime"} : copy[f] = receiver[f]

C26_ReceiverUnchanged ==
    [][/\ BackOffSettings' = BackOffSettings
       /\ C26_Entered => C26_FreshCopy(bLocal', BackOffSettings)]_vars

C26_Witness ==
    /\ Returned /\ previous # Nil /\ previous.attempts >= 2 /\ attempts >= 2
    /\ bLocal.currentInterval > BackOffSettings.currentInterval
    /\ bLocal.startTime > BackOffSettings.startTime

(* C27: Retry reads the status code only of a response that is there: for  *)
(* every outcome of the operation, the one with neither a response nor an  *)
(* error included, the invocation of Retry goes on or returns its result,  *)
(* and never fails on the missing response.                                *)
C27_NoMissingResponseRead ==
    /\ pc \in {"idle", "call", "sleep", "done"}
    /\ (Made >= 1 /\ Last.resp = Nil /\ Last.err = Nil) => Returned

====
